---- MODULE Spec2Model ----
(***************************************************************************)
(* Model of the Tesla cloud command-line tool of DentonGentry/powerwall    *)
(* (package main with GetOAuthTokenFromFile, WriteOAuthTokenToFile,        *)
(* GetOAuthTokenFromTesla, GetEnergySiteId and main).                      *)
(*                                                                         *)
(* One invocation of the tool is a sequential process whose position is    *)
(* pc.  The state directory (the token file and its ".new" sibling) and    *)
(* the clock outlive an invocation; everything else is local to it.        *)
(* Tokens are byte strings, modelled as sequences of small integers so     *)
(* that a write can stop in the middle of a token.                         *)
(***************************************************************************)
EXTENDS Integers, Sequences, FiniteSets, TLC

\* ---------------------------------------------------------------- bounds
TokLen == 2
TicksPerDay == 2
MaxNow == 1
MaxProducts == 3
MaxInputs == 1
MaxForms == 2
MaxSlug == 5
MaxInflight == 2

\* ------------------------------------------------------ program constants
MaxLifetime == 45
RefreshMargin == 7

\* ------------------------------------------------------------ value sets
NoToken == << >>
Syms == {1, 2}
Tokens == {[i \in 1..TokLen |-> c] : c \in Syms}
BearerToken == [i \in 1..TokLen |-> 0]
SiteIds == {7, 9}
SaveArgs == Tokens \cup {NoToken}
Percents == {-1, 0, 100}
Charges == {0, 37}
ChtimesDays == {0, 7}
AgingDays == {38, 39}
NoFile == [ex |-> FALSE, data |-> << >>, mtime |-> 0]
NoReply == [kind |-> "none", products |-> << >>]
NoDeferral == [on |-> FALSE, token |-> NoToken]

\* url.Values: the nil map of "var fields url.Values", or a map
NilValues == [nil |-> TRUE, kv |-> {}]
EmptyValues == [nil |-> FALSE, kv |-> {}]

\* the login page, as html.Parse hands it over: its form elements in document
\* order, each with the input elements that are its children, each input
\* with its attributes in the order they are written
Keys == {"type", "name", "value"}
Types == {"hidden", "text"}
Names == {"_csrf", "cancel"}
Vals == {"", "A", "INVALID"}
AttrOrders ==
    {o \in UNION {[1..k -> Keys] : k \in 0..3} :
        \A i, j \in 1..Len(o) : i # j => o[i] # o[j]}
Input(o, t, nm, v) ==
    [i \in 1..Len(o) |->
        [key |-> o[i],
         val |-> IF o[i] = "type" THEN t ELSE IF o[i] = "name" THEN nm ELSE v]]
Inputs == {Input(o, t, nm, v) : o \in AttrOrders, t \in Types, nm \in Names, v \in Vals}
Forms ==
    [signin : BOOLEAN, inputs : UNION {[1..k -> Inputs] : k \in 0..MaxInputs}]
PlainForms ==
    [signin : BOOLEAN,
     inputs : {<<Input(<<"type", "name", "value">>, "hidden", "_csrf", v)>> :
                  v \in {"", "A"}}]
Docs ==
    {<<f>> : f \in Forms} \cup UNION {[1..k -> PlainForms] : k \in 0..MaxForms}
Goroutines == {1, 2}
Savers == {1, 2}
TokenVals == {1, 2}
Characters == {"a", "9"}
NoSite == 0
BadSite == -1
Products == UNION {[1..n -> SiteIds \cup {NoSite, BadSite}] : n \in 0..MaxProducts}

VARIABLES
    now,            \* time.Now(), in ticks
    file,           \* <statedir>/tesla_bearer_token
    tmp,            \* <statedir>/tesla_bearer_token.new
    pc,             \* position of the running invocation
    caller,         \* "main" or "test": who called into the store
    percent, hold,  \* the --percent and --hold flags
    token, age,     \* main's token and age (the result of the load)
    energy_site_id, ok,
    new_token,      \* main's new_token (proactive refresh)
    mode,           \* which branch of main's if/else was taken
    result,         \* GetOAuthTokenFromTesla's result["access_token"]
    charged,        \* main's charged
    wtoken, err,    \* WriteOAuthTokenToFile's token argument and its err
    calls,          \* device-control requests sent in this invocation
    saving,         \* history: WriteOAuthTokenToFile was called
    snap,           \* history: the token file when the invocation began
    loaded,         \* history: the token the load returned
    loadErr,        \* history: which step of the load failed
    probe1,         \* history: the reply the first probe got
    probedOK,       \* history: tokens a probe accepted in this invocation
    authStarted,    \* history: number of authentication flows started
    authFailed,     \* history: the authentication flow or its probe failed
    devCharge,      \* the backend's percentage_charged of the energy site
    reply,          \* the products reply GetEnergySiteId is applied to
    resolved,       \* history: site ids successful probes returned
    sent,           \* history: requests of the authentication flow
    deferred,       \* history: the invocation before failed a proactive refresh
    doc, fpc,       \* the parsed login page and the position in steps 1 and 2
    fields,         \* GetOAuthTokenFromTesla's fields
    slugN, slugI,   \* GetRandomSlug's n and i
    slugB,          \* GetRandomSlug's b
    mu,             \* TeslaState.mu: 0, or the goroutine that holds it
    tokens,         \* TeslaState.tokens, a value of more than one word
    mpc,            \* position of each goroutine that uses the TeslaState
    local,          \* newTokens of ReadFromFile, the copy json.Marshal reads
    tick,           \* a tick is waiting in the channel t.C
    loop,           \* position of UpdateMetricsLoop
    inflight,       \* calls of updateMetricsFromTesla that have not returned
    fetched,        \* the counter the last updateMetricsFromTesla added to
    spc,            \* position of each of two concurrent invocations in the save
    stok,           \* WriteOAuthTokenToFile's token argument in each of them
    sfd,            \* where the file each of them has open is linked now
    soff,           \* the offset of that open file
    serr            \* WriteOAuthTokenToFile's err in each of them

vars == <<now, file, tmp, pc, caller, percent, hold, token, age,
          energy_site_id, ok, new_token, mode, result, charged, wtoken, err,
          calls, saving, snap, loaded, loadErr, probe1, probedOK, authStarted,
          authFailed, devCharge, reply, resolved, sent, deferred,
          doc, fpc, fields, slugN, slugI, slugB,
          mu, tokens, mpc, local, tick, loop, inflight, fetched,
          spc, stok, sfd, soff, serr>>

runVars == <<percent, hold, token, age, energy_site_id, ok, new_token, mode,
             result, charged>>
histVars == <<loaded, loadErr, probe1, probedOK, authStarted, authFailed>>
envVars == <<devCharge, reply>>
flowVars == <<resolved, sent>>
formVars == <<doc, fpc, fields>>
slugVars == <<slugN, slugI, slugB>>
monVars == <<mu, tokens, mpc, local, tick, loop, inflight, fetched>>
raceVars == <<spc, stok, sfd, soff, serr>>
sideVars == <<formVars, slugVars, monVars, raceVars>>
auxVars == <<deferred, sideVars>>
mainVars == <<now, file, tmp, pc, caller, percent, hold, token, age,
              energy_site_id, ok, new_token, mode, result, charged, wtoken, err,
              calls, saving, snap, loaded, loadErr, probe1, probedOK, authStarted,
              authFailed, devCharge, reply, resolved, sent, deferred>>

Terminal == {"idle", "done", "fatal", "panic", "killed"}
Dead == {"fatal", "panic"}

\* ---------------------------------------------------------- pure helpers

\* int64(x) of a float64 truncates toward zero
TruncDiv(a, b) == IF a >= 0 THEN a \div b ELSE -((-a) \div b)

\* mutant: the age is rounded up instead of truncated
AgeDays_RoundUp(n, mt) == TruncDiv(n - mt + TicksPerDay - 1, TicksPerDay)

\* days := now.Sub(mt).Hours() / 24; int64(days)
AgeDays(n, mt) == TruncDiv(n - mt, TicksPerDay)

\* mutant: the margin test is <= instead of <
NeedsRefresh_Inclusive(a) == (MaxLifetime - a) <= RefreshMargin

\* if (45 - age) < 7
NeedsRefresh(a) == (MaxLifetime - a) < RefreshMargin

\* mutant: the loop does not break, the last energy site wins
FirstSite_Last(ps) ==
    LET I == {i \in 1..Len(ps) : ps[i] \notin {NoSite, BadSite}} IN
    IF I = {} THEN 0 ELSE ps[CHOOSE i \in I : \A j \in I : j <= i]

\* the loop over products: the energy_site_id of the first product that has
\* the key (NoSite: a product without it) with a number Int64() accepts
\* (BadSite: one it rejects), else the zero value
RECURSIVE FirstSite(_)
FirstSite(ps) ==
    IF ps = << >> THEN 0
    ELSE IF Head(ps) \notin {NoSite, BadSite} THEN Head(ps)
    ELSE FirstSite(Tail(ps))

\* the http clients built with Timeout: time.Second * 10: those of
\* GetEnergySiteId and of the three device calls. http.Get and http.Post use
\* http.DefaultClient and steps 2 and 4 a client with CheckRedirect only.
Timeout(c) == c \in {"products", "operation", "backup", "live_status"}

\* what a call gets of an endpoint that never answers: the error of the
\* timeout, or nothing at all
Unanswered(c) == IF Timeout(c) THEN "timeout" ELSE "hang"

\* The replies the products endpoint can give to a request with token t: a
\* transport error, a timeout of the client, a non-2xx status, a 2xx reply
\* that is no JSON or has no "response" list, or a list of products.
\* A request without Authorization header is never answered with success.
ProbeReplies(t) ==
    {[kind |-> k, products |-> << >>] :
        k \in {"neterr", Unanswered("products"), "status"}}
    \cup (IF t = NoToken THEN {}
          ELSE {[kind |-> k, products |-> << >>] : k \in {"badjson", "noresponse"}}
               \cup {[kind |-> "ok", products |-> ps] : ps \in Products})

\* mutant: the status code of the reply is not looked at
GetEnergySiteId_StatusOk(r) ==
    IF r.kind \in {"neterr", "timeout"} THEN [id |-> 0, ok |-> FALSE, exit |-> "no"]
    ELSE IF r.kind = "badjson" THEN [id |-> 0, ok |-> FALSE, exit |-> "fatal"]
    ELSE IF r.kind = "noresponse" THEN [id |-> 0, ok |-> FALSE, exit |-> "panic"]
    ELSE [id |-> FirstSite(r.products), ok |-> TRUE, exit |-> "no"]

\* GetEnergySiteId, as a function of the reply: (id, ok), or the process
\* ends by log.Fatalln (exit "fatal") or by the panic of
\* result["response"].([]interface{}) (exit "panic")
GetEnergySiteId(r) ==
    IF r.kind \in {"neterr", "timeout"} THEN [id |-> 0, ok |-> FALSE, exit |-> "no"]
    ELSE IF r.kind = "status" THEN [id |-> 0, ok |-> FALSE, exit |-> "no"]
    ELSE IF r.kind = "badjson" THEN [id |-> 0, ok |-> FALSE, exit |-> "fatal"]
    ELSE IF r.kind = "noresponse" THEN [id |-> 0, ok |-> FALSE, exit |-> "panic"]
    ELSE [id |-> FirstSite(r.products), ok |-> TRUE, exit |-> "no"]

\* mutant: a failed os.Stat still returns the token that was read
GetOAuthTokenFromFile_StatKeepsToken(f, n, rd, st) ==
    IF ~rd THEN [token |-> NoToken, age |-> 0, err |-> "read"]
    ELSE IF ~st THEN [token |-> f.data, age |-> 0, err |-> "stat"]
    ELSE [token |-> f.data, age |-> AgeDays(n, f.mtime), err |-> "none"]

\* GetOAuthTokenFromFile, as a function of the file f, the time n and whether
\* ioutil.ReadFile (rd) and os.Stat (st) succeed
GetOAuthTokenFromFile(f, n, rd, st) ==
    IF ~rd THEN [token |-> NoToken, age |-> 0, err |-> "read"]
    ELSE IF ~st THEN [token |-> NoToken, age |-> 0, err |-> "stat"]
    ELSE [token |-> f.data, age |-> AgeDays(n, f.mtime), err |-> "none"]

\* mutant: a flow whose token fails the probe is started again
AfterProbe2_Retry(m, k) == IF k THEN "save_open" ELSE "auth_get"

\* mutant: the token of the flow is saved whether or not it passed the probe
AfterProbe2_SaveAnyway(m, k) == "save_open"

\* mutant: the forced branch does not look at ok
AfterProbe2_Unchecked(m, k) == IF k \/ m = "forced" THEN "save_open" ELSE "cmd"

\* mutant: the forced branch goes on when the new token fails the probe
AfterProbe2_Lenient(m, k) == IF k THEN "save_open" ELSE "cmd"

\* main after the probe of the token of the flow: the save, or
\* log.Fatal("Unable to obtain useable Bearer token") in the forced branch, or
\* on to the command with the token main has in the proactive branch
AfterProbe2(m, k) ==
    IF k THEN "save_open" ELSE IF m = "forced" THEN "fatal" ELSE "cmd"

\* mutant: a failed save is only reported
AfterSave_Lenient(e) == "cmd"

\* main after the save: log.Fatalf("WriteOAuthTokenToFile: %v", err) or on
AfterSave(e) == IF e THEN "fatal" ELSE "cmd"

\* mutant: the assignment token = new_token is missing
TokenAfterSave_KeepsOld(m, t, nt) == t

\* token = new_token after the save of the proactive branch
TokenAfterSave(m, t, nt) == IF m = "proactive" THEN nt ELSE t

\* fields.Set(k, v)
Set(f, k, v) ==
    [nil |-> FALSE, kv |-> {q \in f.kv : q[1] # k} \cup {<<k, v>>}]

\* the loop over the attributes of an input, from attribute i on, with name
\* and value as they stand: it breaks at a type that is not hidden
RECURSIVE AttrLoop(_, _, _, _)
AttrLoop(inp, i, name, value) ==
    IF i > Len(inp) THEN <<name, value>>
    ELSE IF inp[i].key = "type" /\ inp[i].val # "hidden" THEN <<name, value>>
    ELSE AttrLoop(inp, i + 1,
                  IF inp[i].key = "name" THEN inp[i].val ELSE name,
                  IF inp[i].key = "value" THEN inp[i].val ELSE value)

\* the loop over the children of the form, from child i on
RECURSIVE InputLoop(_, _, _)
InputLoop(ins, i, f) ==
    IF i > Len(ins) THEN f
    ELSE LET nv == AttrLoop(ins[i], 1, "INVALID", "INVALID") IN
         InputLoop(ins, i + 1,
                   IF nv[1] # "INVALID" /\ nv[2] # "INVALID"
                     THEN Set(f, nv[1], nv[2]) ELSE f)

\* GetHiddenFormInputs(n) of a form element n
GetHiddenFormInputs(form) == InputLoop(form.inputs, 1, EmptyValues)

\* mutant: the fields start as an empty map
NoFields_Empty == EmptyValues

\* var fields url.Values
NoFields == NilValues

\* f(doc): every form whose class contains "sign-in-form" assigns fields
RECURSIVE Walk(_, _, _)
Walk(d, i, f) ==
    IF i > Len(d) THEN f
    ELSE Walk(d, i + 1, IF d[i].signin THEN GetHiddenFormInputs(d[i]) ELSE f)

\* a request to a device endpoint of the site, with the reply it got
Call(k, v, r) ==
    [kind |-> k, token |-> token, site |-> energy_site_id, val |-> v, res |-> r]

\* a request of the authentication flow, with the reply it got
Request(t, b, a, r) == [to |-> t, body |-> b, auth |-> a, reply |-> r]

\* ------------------------------------------------------------------ Init
InitWith(t, r) ==
    /\ now = 0
    /\ file = NoFile
    /\ tmp = NoFile
    /\ pc = "idle"
    /\ caller = "main"
    /\ percent = -1
    /\ hold = FALSE
    /\ token = t
    /\ age = 0
    /\ energy_site_id = 0
    /\ ok = FALSE
    /\ new_token = NoToken
    /\ mode = "none"
    /\ result = NoToken
    /\ charged = 0
    /\ wtoken = NoToken
    /\ err = FALSE
    /\ calls = << >>
    /\ saving = FALSE
    /\ snap = NoFile
    /\ loaded = NoToken
    /\ loadErr = "none"
    /\ probe1 = "none"
    /\ probedOK = {}
    /\ authStarted = 0
    /\ authFailed = FALSE
    /\ devCharge = 0
    /\ reply = r
    /\ resolved = {}
    /\ sent = << >>
    /\ deferred = NoDeferral
    /\ doc = << >>
    /\ fpc = "idle"
    /\ fields = NoFields
    /\ slugN = 0
    /\ slugI = 0
    /\ slugB = << >>
    /\ mu = 0
    /\ tokens = <<0, 0>>
    /\ mpc = [g \in Goroutines |-> "idle"]
    /\ local = [g \in Goroutines |-> <<0, 0>>]
    /\ tick = FALSE
    /\ loop = "select"
    /\ inflight = 0
    /\ fetched = "none"
    /\ spc = [g \in Savers |-> "idle"]
    /\ stok = [g \in Savers |-> NoToken]
    /\ sfd = [g \in Savers |-> "none"]
    /\ soff = [g \in Savers |-> 0]
    /\ serr = [g \in Savers |-> FALSE]

\* the state before the first invocation
Init == InitWith(NoToken, NoReply)

\* GetEnergySiteId alone: a token and a reply of the products endpoint to it
InitProbe == \E t \in Tokens : \E r \in ProbeReplies(t) : InitWith(t, r)

\* the locals and the history of a fresh invocation
Fresh(c, p, h) ==
    /\ caller' = c
    /\ percent' = p
    /\ hold' = h
    /\ token' = NoToken
    /\ age' = 0
    /\ energy_site_id' = 0
    /\ ok' = FALSE
    /\ new_token' = NoToken
    /\ mode' = "none"
    /\ result' = NoToken
    /\ charged' = 0
    /\ err' = FALSE
    /\ calls' = << >>
    /\ loaded' = NoToken
    /\ loadErr' = "none"
    /\ probe1' = "none"
    /\ probedOK' = {}
    /\ authStarted' = 0
    /\ authFailed' = FALSE
    /\ resolved' = {}
    /\ sent' = << >>
    /\ deferred' = IF mode = "proactive" /\ authFailed
                     THEN [on |-> TRUE, token |-> loaded]
                     ELSE NoDeferral
    /\ UNCHANGED envVars
    /\ UNCHANGED sideVars

\* --------------------------------------------------------- environment

\* the clock advances between two invocations (an invocation, bounded by its
\* ten-second timeouts, is short against a tick)
Tick ==
    /\ pc \in Terminal
    /\ now < MaxNow
    /\ now' = now + 1
    /\ UNCHANGED <<file, tmp, pc, caller, wtoken, err, calls, saving, snap>>
    /\ UNCHANGED runVars
    /\ UNCHANGED histVars
    /\ UNCHANGED envVars
    /\ UNCHANGED auxVars
    /\ UNCHANGED flowVars

\* os.Chtimes(filename, t, t) with t = time.Now().AddDate(0, 0, -d)
Chtimes(d) ==
    /\ pc \in Terminal
    /\ file.ex
    /\ file' = [file EXCEPT !.mtime = now - d * TicksPerDay]
    /\ UNCHANGED <<now, tmp, pc, caller, wtoken, err, calls, saving, snap>>
    /\ UNCHANGED runVars
    /\ UNCHANGED histVars
    /\ UNCHANGED envVars
    /\ UNCHANGED auxVars
    /\ UNCHANGED flowVars

\* the process is killed between two of its steps
Kill ==
    /\ pc \notin Terminal
    /\ pc' = "killed"
    /\ UNCHANGED <<now, file, tmp, caller, wtoken, err, calls, saving, snap>>
    /\ UNCHANGED runVars
    /\ UNCHANGED histVars
    /\ UNCHANGED envVars
    /\ UNCHANGED auxVars
    /\ UNCHANGED flowVars

\* ------------------------------------------------------------ entry points

\* main, up to the call of GetOAuthTokenFromFile
Start(p, h) ==
    /\ pc \in Terminal
    /\ pc' = "load"
    /\ Fresh("main", p, h)
    /\ wtoken' = NoToken
    /\ saving' = FALSE
    /\ snap' = file
    /\ UNCHANGED <<now, file, tmp>>

\* TestOAuthTokenFromFile calls WriteOAuthTokenToFile(token, path)
TestSave(t) ==
    /\ pc \in Terminal
    /\ pc' = "save_open"
    /\ Fresh("test", -1, FALSE)
    /\ wtoken' = t
    /\ saving' = TRUE
    /\ snap' = file
    /\ UNCHANGED <<now, file, tmp>>

\* TestOAuthTokenFromFile calls GetOAuthTokenFromFile(path)
TestLoad ==
    /\ pc \in Terminal
    /\ pc' = "load"
    /\ Fresh("test", -1, FALSE)
    /\ wtoken' = NoToken
    /\ saving' = FALSE
    /\ snap' = NoFile
    /\ UNCHANGED <<now, file, tmp>>

\* ------------------------------------------------- GetOAuthTokenFromFile
\* rd: ioutil.ReadFile succeeds; st: os.Stat succeeds
Load ==
    /\ pc = "load"
    /\ \E rd \in BOOLEAN, st \in BOOLEAN :
        /\ (~file.ex) => ~rd
        /\ (~rd) => st
        /\ LET g == GetOAuthTokenFromFile(file, now, rd, st) IN
             token' = g.token /\ age' = g.age /\ loadErr' = g.err
    /\ loaded' = token'
    /\ pc' = IF caller = "main" THEN "probe1" ELSE "done"
    /\ UNCHANGED <<now, file, tmp, caller, percent, hold, energy_site_id, ok,
                   new_token, mode, result, charged, wtoken, err, calls, saving, snap,
                   probe1, probedOK, authStarted, authFailed>>
    /\ UNCHANGED envVars
    /\ UNCHANGED auxVars
    /\ UNCHANGED flowVars

\* ------------------------------------------------------------------ main

\* energy_site_id, ok := GetEnergySiteId(token) and the branch on it:
\* not ok: the forced flow; ok and aging: the proactive flow; else use as is
Probe1 ==
    /\ pc = "probe1"
    /\ \E r \in ProbeReplies(token) :
        LET g == GetEnergySiteId(r) IN
        /\ probe1' = r.kind
        /\ IF g.exit # "no"
             THEN /\ pc' = g.exit
                  /\ UNCHANGED <<energy_site_id, ok, mode, authStarted, probedOK,
                                  resolved>>
             ELSE /\ energy_site_id' = g.id
                  /\ ok' = g.ok
                  /\ probedOK' = IF g.ok THEN probedOK \cup {token} ELSE probedOK
                  /\ resolved' = IF g.ok THEN resolved \cup {g.id} ELSE resolved
                  /\ IF ~g.ok
                       THEN mode' = "forced" /\ pc' = "auth_get"
                            /\ authStarted' = authStarted + 1
                       ELSE IF NeedsRefresh(age)
                         THEN mode' = "proactive" /\ pc' = "auth_get"
                              /\ authStarted' = authStarted + 1
                         ELSE mode' = "fresh" /\ pc' = "cmd"
                              /\ UNCHANGED authStarted
    /\ UNCHANGED <<now, file, tmp, caller, percent, hold, token, age, new_token,
                   result, charged, wtoken, err, calls, saving, snap, loaded, loadErr,
                   authFailed, sent>>
    /\ UNCHANGED envVars
    /\ UNCHANGED auxVars

\* ----------------------------------------------- GetOAuthTokenFromTesla

\* the flow waits for a reply that does not come
AuthHangs ==
    /\ pc' = "hung"
    /\ UNCHANGED <<token, new_token, result, authFailed>>

\* what leaves the flow: log.Fatalf ("fatal") or a runtime panic ("panic")
AuthDies(how) ==
    /\ pc' = how
    /\ authFailed' = TRUE
    /\ UNCHANGED <<token, new_token, result>>

\* Step 1: http.Get of the login page, html.Parse, the search for the form,
\* fields.Set("identity", ...) on the fields found
AuthGet ==
    /\ pc = "auth_get"
    /\ \E r \in {"neterr", "noform", "page", Unanswered("authorize")} :
        /\ sent' = Append(sent, Request("authorize", "none", NoToken, r))
        /\ CASE r = "neterr" -> AuthDies("fatal")
            [] r = "hang" -> AuthHangs
            [] r = "noform" -> AuthDies("panic")
            [] r = "page" -> pc' = "auth_post"
                              /\ UNCHANGED <<token, new_token, result, authFailed>>
    /\ UNCHANGED <<now, file, tmp, caller, percent, hold, age, energy_site_id,
                   ok, mode, charged, wtoken, err, calls, saving, snap, loaded, loadErr,
                   probe1, probedOK, authStarted, resolved>>
    /\ UNCHANGED envVars
    /\ UNCHANGED auxVars

\* Step 2: the login POST; code := query["code"][0] of the Location header
AuthPost ==
    /\ pc = "auth_post"
    /\ \E r \in {"neterr", "nocode", "code", Unanswered("authorize")} :
        /\ sent' = Append(sent, Request("authorize", "form", NoToken, r))
        /\ CASE r = "neterr" -> AuthDies("fatal")
            [] r = "hang" -> AuthHangs
            [] r = "nocode" -> AuthDies("panic")
            [] r = "code" -> pc' = "auth_bearer"
                              /\ UNCHANGED <<token, new_token, result, authFailed>>
    /\ UNCHANGED <<now, file, tmp, caller, percent, hold, age, energy_site_id,
                   ok, mode, charged, wtoken, err, calls, saving, snap, loaded, loadErr,
                   probe1, probedOK, authStarted, resolved>>
    /\ UNCHANGED envVars
    /\ UNCHANGED auxVars

\* Step 3: the code is exchanged for the bearer token;
\* access_token := result["access_token"].(string)
AuthBearer ==
    /\ pc = "auth_bearer"
    /\ \E r \in {"neterr", "badjson", "nofield", "token", Unanswered("token")} :
        /\ sent' = Append(sent, Request("token", "code", NoToken, r))
        /\ CASE r \in {"neterr", "badjson"} -> AuthDies("fatal")
            [] r = "hang" -> AuthHangs
            [] r = "nofield" -> AuthDies("panic")
            [] r = "token" -> /\ pc' = "auth_access"
                               /\ result' = BearerToken
                               /\ UNCHANGED <<token, new_token, authFailed>>
    /\ UNCHANGED <<now, file, tmp, caller, percent, hold, age, energy_site_id,
                   ok, mode, charged, wtoken, err, calls, saving, snap, loaded, loadErr,
                   probe1, probedOK, authStarted, resolved>>
    /\ UNCHANGED envVars
    /\ UNCHANGED auxVars

\* the value the flow returns to main: token = ... in the forced branch,
\* new_token := ... in the proactive one
AuthReturns(t) ==
    /\ pc' = "probe2"
    /\ result' = t
    /\ IF mode = "forced"
         THEN token' = t /\ UNCHANGED new_token
         ELSE new_token' = t /\ UNCHANGED token
    /\ UNCHANGED authFailed

\* Step 4: the bearer token is exchanged for the access token. The request
\* is built on strings.NewReader(fields.Encode()), the form of step 2, and
\* carries "Bearer "+access_token of step 3. The reply is decoded into the
\* map of step 3, which keeps its access_token entry when the reply has none.
AuthAccess ==
    /\ pc = "auth_access"
    /\ \E r \in {"neterr", "badjson", "nofield", "badtype", "token",
                  Unanswered("owner-api")} :
        /\ sent' = Append(sent, Request("owner-api", "form", result, r))
        /\ CASE r \in {"neterr", "badjson"} -> AuthDies("fatal")
            [] r = "hang" -> AuthHangs
            [] r = "badtype" -> AuthDies("panic")
            [] r = "nofield" -> AuthReturns(result)
            [] r = "token" -> \E t \in Tokens \cup {NoToken} : AuthReturns(t)
    /\ UNCHANGED <<now, file, tmp, caller, percent, hold, age, energy_site_id,
                   ok, mode, charged, wtoken, err, calls, saving, snap, loaded, loadErr,
                   probe1, probedOK, authStarted, resolved>>
    /\ UNCHANGED envVars
    /\ UNCHANGED auxVars

\* energy_site_id, ok = GetEnergySiteId(<the token of the flow>) and what
\* main does with ok in either branch, up to the call of the save
Probe2 ==
    /\ pc = "probe2"
    /\ LET t == IF mode = "forced" THEN token ELSE new_token IN
       \E r \in ProbeReplies(t) :
        LET g == GetEnergySiteId(r) IN
        IF g.exit # "no"
          THEN /\ pc' = g.exit
               /\ UNCHANGED <<energy_site_id, ok, probedOK, authFailed, wtoken,
                           saving, snap, resolved>>
          ELSE /\ energy_site_id' = g.id
               /\ ok' = g.ok
               /\ probedOK' = IF g.ok THEN probedOK \cup {t} ELSE probedOK
               /\ resolved' = IF g.ok THEN resolved \cup {g.id} ELSE resolved
               /\ authFailed' = ~g.ok
               /\ pc' = AfterProbe2(mode, g.ok)
               /\ IF g.ok
                    THEN wtoken' = t /\ saving' = TRUE /\ snap' = file
                    ELSE UNCHANGED <<wtoken, saving, snap>>
    /\ UNCHANGED <<now, file, tmp, caller, percent, hold, token, age, new_token,
                   mode, result, charged, err, calls, loaded, loadErr, probe1,
                   authStarted, sent>>
    /\ UNCHANGED envVars
    /\ UNCHANGED auxVars

\* ------------------------------------------------- WriteOAuthTokenToFile
saveFrame == <<now, caller, wtoken, calls, saving, snap>>

\* mutant: the token is written in place, the final path is opened
SaveOpen_InPlace ==
    /\ pc = "save_open"
    /\ file' = [ex |-> TRUE, data |-> << >>, mtime |-> now]
    /\ tmp' = [ex |-> TRUE, data |-> << >>, mtime |-> now]
    /\ pc' = "save_write"
    /\ UNCHANGED <<err, now, caller, wtoken, calls, saving, snap>>
    /\ UNCHANGED runVars
    /\ UNCHANGED histVars
    /\ UNCHANGED envVars
    /\ UNCHANGED auxVars
    /\ UNCHANGED flowVars

\* ioutil.WriteFile, part 1: open(newfilename, O_WRONLY|O_CREATE|O_TRUNC, 0400)
SaveOpen ==
    /\ pc = "save_open"
    /\ \/ /\ tmp' = [ex |-> TRUE, data |-> << >>, mtime |-> now]
          /\ pc' = "save_write"
          /\ UNCHANGED err
       \/ /\ err' = TRUE
          /\ pc' = "save_rm"
          /\ UNCHANGED tmp
    /\ UNCHANGED file
    /\ UNCHANGED saveFrame
    /\ UNCHANGED runVars
    /\ UNCHANGED histVars
    /\ UNCHANGED envVars
    /\ UNCHANGED auxVars
    /\ UNCHANGED flowVars

\* ioutil.WriteFile, part 2: the bytes reach newfilename one after another;
\* the write or the close can fail at any point
SaveWrite ==
    /\ pc = "save_write"
    /\ \/ /\ Len(tmp.data) < Len(wtoken)
          /\ tmp' = [tmp EXCEPT !.data = Append(@, wtoken[Len(@) + 1]),
                                !.mtime = now]
          /\ UNCHANGED <<pc, err>>
       \/ /\ Len(tmp.data) = Len(wtoken)
          /\ pc' = "save_rename"
          /\ UNCHANGED <<tmp, err>>
       \/ /\ err' = TRUE
          /\ pc' = "save_rm"
          /\ UNCHANGED tmp
    /\ UNCHANGED file
    /\ UNCHANGED saveFrame
    /\ UNCHANGED runVars
    /\ UNCHANGED histVars
    /\ UNCHANGED envVars
    /\ UNCHANGED auxVars
    /\ UNCHANGED flowVars

\* os.Rename(newfilename, filename)
SaveRename ==
    /\ pc = "save_rename"
    /\ \/ /\ file' = tmp
          /\ tmp' = NoFile
          /\ pc' = "save_ret"
          /\ UNCHANGED err
       \/ /\ err' = TRUE
          /\ pc' = "save_rm"
          /\ UNCHANGED <<file, tmp>>
    /\ UNCHANGED saveFrame
    /\ UNCHANGED runVars
    /\ UNCHANGED histVars
    /\ UNCHANGED envVars
    /\ UNCHANGED auxVars
    /\ UNCHANGED flowVars

\* mutant: the temporary file is left behind
SaveRemove_Skipped ==
    /\ pc = "save_rm"
    /\ pc' = "save_ret"
    /\ UNCHANGED <<file, tmp, err, now, caller, wtoken, calls, saving, snap>>
    /\ UNCHANGED runVars
    /\ UNCHANGED histVars
    /\ UNCHANGED envVars
    /\ UNCHANGED auxVars
    /\ UNCHANGED flowVars

\* _ = os.Remove(newfilename); return err
SaveRemove ==
    /\ pc = "save_rm"
    /\ tmp' = NoFile
    /\ pc' = "save_ret"
    /\ UNCHANGED <<file, err>>
    /\ UNCHANGED saveFrame
    /\ UNCHANGED runVars
    /\ UNCHANGED histVars
    /\ UNCHANGED envVars
    /\ UNCHANGED auxVars
    /\ UNCHANGED flowVars

\* back in the caller: main dies of an error (log.Fatalf), else goes on with
\* the token (token = new_token in the proactive branch); the test ends
SaveRet ==
    /\ pc = "save_ret"
    /\ IF caller = "test"
         THEN pc' = "done" /\ UNCHANGED token
         ELSE /\ pc' = AfterSave(err)
              /\ token' = IF err THEN token
                           ELSE TokenAfterSave(mode, token, new_token)
    /\ UNCHANGED <<now, file, tmp, caller, percent, hold, age, energy_site_id,
                   ok, new_token, mode, result, charged, wtoken, err, calls,
                   saving, snap, loaded, loadErr, probe1, probedOK,
                   authStarted, authFailed>>
    /\ UNCHANGED envVars
    /\ UNCHANGED auxVars
    /\ UNCHANGED flowVars

\* ------------------- WriteOAuthTokenToFile in two concurrent invocations
raceFrame == <<now, pc, caller, percent, hold, token, age, energy_site_id, ok,
               new_token, mode, result, charged, wtoken, err, calls, saving,
               snap, loaded, loadErr, probe1, probedOK, authStarted, authFailed,
               devCharge, reply, resolved, sent, deferred,
               formVars, slugVars, monVars>>

\* a write of byte b at offset off of a file with contents d (a hole reads 0)
WriteAt(d, off, b) ==
    IF off < Len(d) THEN [d EXCEPT ![off + 1] = b]
    ELSE [i \in 1..(off + 1) |->
            IF i <= Len(d) THEN d[i] ELSE IF i = off + 1 THEN b ELSE 0]

\* the open files after the directory entry `from` has become `to`
Relink(fd, from, to) ==
    [g \in Savers |-> IF fd[g] = from THEN to
                       ELSE IF fd[g] = to /\ to # "unlinked" THEN "unlinked"
                       ELSE fd[g]]

\* an invocation calls WriteOAuthTokenToFile(token, path)
Invoke(g, t) ==
    /\ spc[g] = "idle"
    /\ spc' = [spc EXCEPT ![g] = "open"]
    /\ stok' = [stok EXCEPT ![g] = t]
    /\ UNCHANGED <<file, tmp, sfd, soff, serr>>
    /\ UNCHANGED raceFrame

\* ioutil.WriteFile, part 1: open(newfilename, O_WRONLY|O_CREATE|O_TRUNC, 0400).
\* The file is created, or the file that is there is truncated (the mode 0400
\* of a file another invocation created does not stop a privileged process),
\* or the open fails
OpenNew(g) ==
    /\ spc[g] = "open"
    /\ \/ /\ tmp' = IF tmp.ex THEN [tmp EXCEPT !.data = << >>, !.mtime = now]
                      ELSE [ex |-> TRUE, data |-> << >>, mtime |-> now]
          /\ sfd' = [sfd EXCEPT ![g] = "new"]
          /\ spc' = [spc EXCEPT ![g] = "write"]
          /\ UNCHANGED serr
       \/ /\ serr' = [serr EXCEPT ![g] = TRUE]
          /\ spc' = [spc EXCEPT ![g] = "remove"]
          /\ UNCHANGED <<tmp, sfd>>
    /\ UNCHANGED <<file, stok, soff>>
    /\ UNCHANGED raceFrame

\* ioutil.WriteFile, part 2: the bytes go to the open file, wherever it is
\* linked by now, at the offset of this descriptor; the write can fail
WriteNew(g) ==
    /\ spc[g] = "write"
    /\ \/ /\ soff[g] < Len(stok[g])
          /\ soff' = [soff EXCEPT ![g] = @ + 1]
          /\ tmp' = IF sfd[g] = "new"
                      THEN [tmp EXCEPT !.data = WriteAt(@, soff[g], stok[g][soff[g] + 1]),
                                       !.mtime = now]
                      ELSE tmp
          /\ file' = IF sfd[g] = "final"
                       THEN [file EXCEPT !.data = WriteAt(@, soff[g], stok[g][soff[g] + 1]),
                                         !.mtime = now]
                       ELSE file
          /\ UNCHANGED <<spc, serr>>
       \/ /\ soff[g] = Len(stok[g])
          /\ spc' = [spc EXCEPT ![g] = "rename"]
          /\ UNCHANGED <<file, tmp, soff, serr>>
       \/ /\ serr' = [serr EXCEPT ![g] = TRUE]
          /\ spc' = [spc EXCEPT ![g] = "remove"]
          /\ UNCHANGED <<file, tmp, soff>>
    /\ UNCHANGED <<stok, sfd>>
    /\ UNCHANGED raceFrame

\* os.Rename(newfilename, filename) and return nil; it fails when newfilename
\* is gone, and can fail otherwise
RenameNew(g) ==
    /\ spc[g] = "rename"
    /\ \/ /\ tmp.ex
          /\ file' = tmp
          /\ tmp' = NoFile
          /\ sfd' = Relink(sfd, "new", "final")
          /\ spc' = [spc EXCEPT ![g] = "done"]
          /\ UNCHANGED serr
       \/ /\ serr' = [serr EXCEPT ![g] = TRUE]
          /\ spc' = [spc EXCEPT ![g] = "remove"]
          /\ UNCHANGED <<file, tmp, sfd>>
    /\ UNCHANGED <<stok, soff>>
    /\ UNCHANGED raceFrame

\* _ = os.Remove(newfilename); return err
RemoveNew(g) ==
    /\ spc[g] = "remove"
    /\ tmp' = NoFile
    /\ sfd' = Relink(sfd, "new", "unlinked")
    /\ spc' = [spc EXCEPT ![g] = "done"]
    /\ UNCHANGED <<file, stok, soff, serr>>
    /\ UNCHANGED raceFrame

NextRace ==
    \/ \E g \in Savers : \E t \in Tokens : Invoke(g, t)
    \/ \E g \in Savers : OpenNew(g)
    \/ \E g \in Savers : WriteNew(g)
    \/ \E g \in Savers : RenameNew(g)
    \/ \E g \in Savers : RemoveNew(g)

\* two invocations that save into the same state directory
SpecRace == Init /\ [][NextRace]_vars

\* ------------------------------------------------- the Reserve Command
cmdFrame == <<now, file, tmp, caller, percent, hold, token, age,
              energy_site_id, ok, new_token, mode, result, wtoken, err, saving, snap>>

\* mutant: a percent of 0 counts as no percent given
Variant_ZeroUnset(p, h) ==
    IF p > 0 THEN "percent" ELSE IF h THEN "hold" ELSE "query"

\* if *percent >= 0.0 {...} else if *hold {...} else {...}
Variant(p, h) ==
    IF p >= 0 THEN "percent" ELSE IF h THEN "hold" ELSE "query"

\* mutant: the hold branch starts with the read of the charge
FirstCall_HoldReadsFirst(v) == IF v = "percent" THEN "c_mode" ELSE "c_charge"

\* mutant: every branch starts with SetSelfConsumption
FirstCall_AlwaysMode(v) == "c_mode"

\* the first call of the branch
FirstCall(v) == IF v = "query" THEN "c_charge" ELSE "c_mode"

\* mutant: a reply with an error status ends the run as well
CallDies_StatusChecked(r) == r \in {"neterr", "badjson", "status"}

\* SetSelfConsumption and SetBackupPercent end the run by log.Fatalln on an
\* error of client.Do or of decoder.Decode; resp.StatusCode is not read
CallDies(r) == r \in {"neterr", "badjson"}

\* mutant: a percent above 99 is clamped
ReserveValue_Clamped(p, c) == IF p >= 0 THEN (IF p > 99 THEN 99 ELSE p) ELSE c

\* the third argument of SetBackupPercent: float64(*percent), or charged
ReserveValue(p, c) == IF p >= 0 THEN p ELSE c

\* mutant: GetBatteryCharge yields its zero value when the field is missing
ChargeExit_Default(r) == IF r = "badtype" THEN "panic" ELSE "no"

\* GetBatteryCharge ends the run by log.Fatalln / log.Fatalf unless the reply
\* is JSON with response.percentage_charged, and panics in charged.(float64)
ChargeExit(r) ==
    IF r \in {"neterr", "badjson", "nofield"} THEN "fatal"
    ELSE IF r = "badtype" THEN "panic"
    ELSE "no"

\* the replies of the endpoints that set something
SetReplies == {"neterr", "badjson", "status", "ok"}

\* the replies of live_status
ChargeReplies == {"neterr", "badjson", "nofield", "badtype", "value"}

\* the charge of the battery changes between two invocations
Drift ==
    /\ pc \in Terminal
    /\ \E v \in Charges \ {devCharge} : devCharge' = v
    /\ UNCHANGED <<now, file, tmp, pc, caller, wtoken, err, calls, saving, snap,
                   reply>>
    /\ UNCHANGED runVars
    /\ UNCHANGED histVars
    /\ UNCHANGED flowVars
    /\ UNCHANGED auxVars

\* the branch main takes on its flags
CmdDispatch ==
    /\ pc = "cmd"
    /\ pc' = FirstCall(Variant(percent, hold))
    /\ UNCHANGED <<charged, calls>>
    /\ UNCHANGED cmdFrame
    /\ UNCHANGED histVars
    /\ UNCHANGED envVars
    /\ UNCHANGED auxVars
    /\ UNCHANGED flowVars

\* SetSelfConsumption(token, energy_site_id)
SetSelfConsumption ==
    /\ pc = "c_mode"
    /\ \E r \in SetReplies :
        /\ calls' = Append(calls, Call("mode", 0, r))
        /\ pc' = IF CallDies(r) THEN "fatal"
                 ELSE IF Variant(percent, hold) = "percent" THEN "c_reserve"
                 ELSE "c_charge"
    /\ UNCHANGED charged
    /\ UNCHANGED cmdFrame
    /\ UNCHANGED histVars
    /\ UNCHANGED envVars
    /\ UNCHANGED auxVars
    /\ UNCHANGED flowVars

\* charged := GetBatteryCharge(token, energy_site_id), and
\* fmt.Printf("%.1f\n", charged) in the last branch
GetBatteryCharge ==
    /\ pc = "c_charge"
    /\ \E r \in ChargeReplies :
        IF ChargeExit(r) # "no"
          THEN /\ calls' = Append(calls, Call("charge", 0, r))
               /\ pc' = ChargeExit(r)
               /\ UNCHANGED charged
          ELSE /\ charged' = IF r = "value" THEN devCharge ELSE 0
               /\ calls' = Append(calls, Call("charge", charged', r))
               /\ pc' = IF Variant(percent, hold) = "hold" THEN "c_reserve"
                        ELSE "done"
    /\ UNCHANGED cmdFrame
    /\ UNCHANGED histVars
    /\ UNCHANGED envVars
    /\ UNCHANGED auxVars
    /\ UNCHANGED flowVars

\* SetBackupPercent(token, energy_site_id, float64(*percent) or charged)
SetBackupPercent ==
    /\ pc = "c_reserve"
    /\ \E r \in SetReplies :
        /\ calls' = Append(calls, Call("reserve", ReserveValue(percent, charged), r))
        /\ pc' = IF CallDies(r) THEN "fatal" ELSE "done"
    /\ UNCHANGED charged
    /\ UNCHANGED cmdFrame
    /\ UNCHANGED histVars
    /\ UNCHANGED envVars
    /\ UNCHANGED auxVars
    /\ UNCHANGED flowVars

\* ------------------------------------------------------------------ Next
\* The invocations of main, one after another. Between two of them the token
\* file ages (Chtimes) and the battery charge changes (Drift); the clock
\* itself is advanced in the specification of the credential store.
Next ==
    \/ Drift
    \/ \E d \in AgingDays : Chtimes(d)
    \/ \E p \in Percents, h \in BOOLEAN : Start(p, h)
    \/ Load
    \/ Probe1
    \/ AuthGet
    \/ AuthPost
    \/ AuthBearer
    \/ AuthAccess
    \/ Probe2
    \/ SaveOpen
    \/ SaveWrite
    \/ SaveRename
    \/ SaveRemove
    \/ SaveRet
    \/ CmdDispatch
    \/ SetSelfConsumption
    \/ GetBatteryCharge
    \/ SetBackupPercent

Spec == Init /\ [][Next]_vars

\* The credential store alone, driven as TestOAuthTokenFromFile drives it
NextStore ==
    \/ Tick
    \/ \E d \in ChtimesDays : Chtimes(d)
    \/ Kill
    \/ \E t \in SaveArgs : TestSave(t)
    \/ TestLoad
    \/ Load
    \/ SaveOpen
    \/ SaveWrite
    \/ SaveRename
    \/ SaveRemove
    \/ SaveRet

SpecStore == Init /\ [][NextStore]_vars

\* energy_site_id, ok := GetEnergySiteId(token) on the reply at hand
Resolve ==
    /\ pc = "idle"
    /\ reply # NoReply
    /\ LET g == GetEnergySiteId(reply) IN
        IF g.exit # "no"
          THEN pc' = g.exit /\ UNCHANGED <<energy_site_id, ok, resolved>>
          ELSE /\ pc' = "done"
               /\ energy_site_id' = g.id
               /\ ok' = g.ok
               /\ resolved' = IF g.ok THEN resolved \cup {g.id} ELSE resolved
    /\ UNCHANGED <<now, file, tmp, caller, percent, hold, token, age, new_token,
                   mode, result, charged, wtoken, err, calls, saving, snap, sent>>
    /\ UNCHANGED histVars
    /\ UNCHANGED envVars
    /\ UNCHANGED auxVars

NextProbe == Resolve

\* ------------------------------- steps 1 and 2 of GetOAuthTokenFromTesla
formFrame == <<mainVars, slugVars, monVars, raceVars>>

\* resp, err := http.Get(...); doc, err := html.Parse(resp.Body)
Fetch(d) ==
    /\ fpc = "idle"
    /\ doc' = d
    /\ fpc' = "parsed"
    /\ UNCHANGED fields
    /\ UNCHANGED formFrame

\* var fields url.Values; f(doc)
FindForm ==
    /\ fpc = "parsed"
    /\ fields' = Walk(doc, 1, NoFields)
    /\ fpc' = "found"
    /\ UNCHANGED doc
    /\ UNCHANGED formFrame

\* fields.Set("identity", username); fields.Set("credential", password):
\* an assignment to an entry of a nil map panics
SetCredentials ==
    /\ fpc = "found"
    /\ IF fields.nil
         THEN fpc' = "panic" /\ UNCHANGED fields
         ELSE /\ fields' = Set(Set(fields, "identity", "username"),
                                "credential", "password")
              /\ fpc' = "post"
    /\ UNCHANGED doc
    /\ UNCHANGED formFrame

\* the login POST with fields.Encode() as its body
Post ==
    /\ fpc = "post"
    /\ fpc' = "posted"
    /\ UNCHANGED <<doc, fields>>
    /\ UNCHANGED formFrame

NextForm ==
    \/ \E d \in Docs : Fetch(d)
    \/ FindForm
    \/ SetCredentials
    \/ Post

SpecForm == Init /\ [][NextForm]_vars

\* -------------------------------------------------------- GetRandomSlug
slugFrame == <<mainVars, formVars, monVars, raceVars>>

\* mutant: the slice is one byte longer than asked for
Make_OneMore(m) == [i \in 1..(m + 1) |-> 0]

\* make([]byte, n)
Make(m) == [i \in 1..m |-> 0]

\* a call of GetRandomSlug(m), the one before having returned:
\* b := make([]byte, n)
GetRandomSlug(m) ==
    /\ slugI = Len(slugB)
    /\ slugN' = m
    /\ slugB' = Make(m)
    /\ slugI' = 0
    /\ UNCHANGED slugFrame

\* for i := range b { b[i] = characters[rand.Intn(len(characters))] }
SlugLoop ==
    /\ slugI < Len(slugB)
    /\ \E c \in Characters : slugB' = [slugB EXCEPT ![slugI + 1] = c]
    /\ slugI' = slugI + 1
    /\ UNCHANGED slugN
    /\ UNCHANGED slugFrame

NextSlug ==
    \/ \E m \in 0..MaxSlug : GetRandomSlug(m)
    \/ SlugLoop

SpecSlug == Init /\ [][NextSlug]_vars

\* ------------------------------------------- the long-running monitor
monFrame == <<mainVars, formVars, slugVars, raceVars>>

\* mutant: Lock returns at once, held or not
CanLock_Always(m) == TRUE

\* s.mu.Lock() returns when the mutex is free
CanLock(m) == m = 0

\* ReadFromFile, up to s.mu.Lock(): os.ReadFile and json.Unmarshal give
\* newTokens, or an error that is returned
ReadFromFile(g) ==
    /\ mpc[g] = "idle"
    /\ \/ \E v \in TokenVals :
            /\ local' = [local EXCEPT ![g] = <<v, v>>]
            /\ mpc' = [mpc EXCEPT ![g] = "r_lock"]
       \/ UNCHANGED <<local, mpc>>
    /\ UNCHANGED <<mu, tokens, tick, loop, inflight, fetched>>
    /\ UNCHANGED monFrame

\* s.mu.Lock() of ReadFromFile
ReadLock(g) ==
    /\ mpc[g] = "r_lock"
    /\ CanLock(mu)
    /\ mu' = g
    /\ mpc' = [mpc EXCEPT ![g] = "r_store"]
    /\ UNCHANGED <<tokens, local, tick, loop, inflight, fetched>>
    /\ UNCHANGED monFrame

\* s.tokens = newTokens, word by word
ReadStore(g) ==
    /\ mpc[g] \in {"r_store", "r_store2"}
    /\ LET w == IF mpc[g] = "r_store" THEN 1 ELSE 2 IN
         tokens' = [tokens EXCEPT ![w] = local[g][w]]
    /\ mpc' = [mpc EXCEPT ![g] = IF @ = "r_store" THEN "r_store2" ELSE "r_unlock"]
    /\ UNCHANGED <<mu, local, tick, loop, inflight, fetched>>
    /\ UNCHANGED monFrame

\* defer s.mu.Unlock(); return nil
ReadUnlock(g) ==
    /\ mpc[g] = "r_unlock"
    /\ mu' = 0
    /\ mpc' = [mpc EXCEPT ![g] = "idle"]
    /\ local' = [local EXCEPT ![g] = <<0, 0>>]
    /\ UNCHANGED <<tokens, tick, loop, inflight, fetched>>
    /\ UNCHANGED monFrame

\* WriteToFile: s.mu.Lock()
WriteLock(g) ==
    /\ mpc[g] = "idle"
    /\ CanLock(mu)
    /\ mu' = g
    /\ mpc' = [mpc EXCEPT ![g] = "w_read"]
    /\ UNCHANGED <<tokens, local, tick, loop, inflight, fetched>>
    /\ UNCHANGED monFrame

\* b, err := json.Marshal(s): the state is read word by word
WriteMarshal(g) ==
    /\ mpc[g] \in {"w_read", "w_read2"}
    /\ LET w == IF mpc[g] = "w_read" THEN 1 ELSE 2 IN
         local' = [local EXCEPT ![g][w] = tokens[w]]
    /\ mpc' = [mpc EXCEPT ![g] = IF @ = "w_read" THEN "w_read2" ELSE "w_unlock"]
    /\ UNCHANGED <<mu, tokens, tick, loop, inflight, fetched>>
    /\ UNCHANGED monFrame

\* s.mu.Unlock()
WriteUnlock(g) ==
    /\ mpc[g] = "w_unlock"
    /\ mu' = 0
    /\ mpc' = [mpc EXCEPT ![g] = "w_file"]
    /\ UNCHANGED <<tokens, local, tick, loop, inflight, fetched>>
    /\ UNCHANGED monFrame

\* the rest of WriteToFile: os.OpenFile, f.Write(b), or the return of err
WriteFile(g) ==
    /\ mpc[g] = "w_file"
    /\ mpc' = [mpc EXCEPT ![g] = "idle"]
    /\ local' = [local EXCEPT ![g] = <<0, 0>>]
    /\ UNCHANGED <<mu, tokens, tick, loop, inflight, fetched>>
    /\ UNCHANGED monFrame

\* the ticker t sends on t.C, a channel that holds one tick; a tick that
\* finds the channel full is dropped
TickerFires ==
    /\ ~tick
    /\ tick' = TRUE
    /\ UNCHANGED <<mu, tokens, mpc, local, loop, inflight, fetched>>
    /\ UNCHANGED monFrame

\* mutant: the update is started as a goroutine of its own
AfterReceive_Go == "select"

\* where the loop is after case <-t.C: in the call updateMetricsFromTesla
AfterReceive == "updating"

\* case <-t.C: updateMetricsFromTesla(&Tesla) is called
Receive ==
    /\ loop = "select"
    /\ tick
    /\ inflight < MaxInflight
    /\ tick' = FALSE
    /\ loop' = AfterReceive
    /\ inflight' = inflight + 1
    /\ UNCHANGED <<mu, tokens, mpc, local, fetched>>
    /\ UNCHANGED monFrame

\* updateMetricsFromTesla returns: fetchFailed.Add(1) for an error of
\* NewRequest, Do or ReadAll and for a status other than 200,
\* fetchAuthFailed.Add(1) for status 403, no counter after the decode
updateMetricsFromTesla ==
    /\ inflight > 0
    /\ \E r \in {"failed", "authfailed", "decoded"} : fetched' = r
    /\ inflight' = inflight - 1
    /\ loop' = "select"
    /\ UNCHANGED <<mu, tokens, mpc, local, tick>>
    /\ UNCHANGED monFrame

NextMonitor ==
    \/ \E g \in Goroutines : ReadFromFile(g)
    \/ \E g \in Goroutines : ReadLock(g)
    \/ \E g \in Goroutines : ReadStore(g)
    \/ \E g \in Goroutines : ReadUnlock(g)
    \/ \E g \in Goroutines : WriteLock(g)
    \/ \E g \in Goroutines : WriteMarshal(g)
    \/ \E g \in Goroutines : WriteUnlock(g)
    \/ \E g \in Goroutines : WriteFile(g)
    \/ TickerFires
    \/ Receive
    \/ updateMetricsFromTesla

SpecMonitor == Init /\ [][NextMonitor]_vars

SpecProbe == InitProbe /\ [][NextProbe]_vars

\* ================================================================ claims
InCommand == pc \in {"cmd", "c_mode", "c_charge", "c_reserve", "done"}
CallsUse(t) == \A i \in 1..Len(calls) : calls[i].token = t

\* C1: when the stored credential passed the probe and is inside the refresh
\* margin, a failed proactive re-authentication does not end the run: if the
\* run has died, the device command had been started, and every device call
\* carries the credential that was loaded.
C1_ProactiveFailureOnlyReported ==
    (mode = "proactive" /\ authFailed) =>
        /\ (pc \in Dead => calls # << >>)
        /\ CallsUse(loaded)

\* C2: when the stored credential is absent or was rejected by the probe and
\* the full re-authentication fails too (a step of the exchange fails or the
\* new token is rejected by the probe), the run has died and has issued no
\* device-control call.
C2_ForcedFailureFatal ==
    (mode = "forced" /\ authFailed) => (pc \in Dead /\ calls = << >>)

C2_Witness ==
    /\ mode = "forced"
    /\ authFailed
    /\ pc = "fatal"
    /\ token \in Tokens
    /\ loaded \in Tokens

\* C3: for a stored credential that passed the probe: with an age of 38 days
\* or less no authentication flow is started and the device calls carry the
\* stored credential; with an age of 39 days or more the authentication flow
\* has been started once the probe is over, so before any device call.
C3_RefreshMargin ==
    probe1 = "ok" =>
        /\ (age <= 38) => (mode = "fresh" /\ authStarted = 0
                           /\ token = loaded /\ CallsUse(loaded))
        /\ (age >= 39) => (mode = "proactive" /\ authStarted = 1)

C3_Witness ==
    /\ probe1 = "ok"
    /\ age = 38
    /\ loaded \in Tokens
    /\ pc = "done"
    /\ Len(calls) = 2

\* C4: when the proactive re-authentication succeeded (the new token passed
\* the probe and the save was called), every device call of the run carries
\* the new token, and the store holds the new token by then.
C4_RefreshedTokenUsed ==
    (mode = "proactive" /\ saving /\ InCommand) =>
        /\ token = new_token
        /\ CallsUse(new_token)
        /\ file.ex /\ file.data = new_token

C4_Witness ==
    /\ mode = "proactive"
    /\ saving
    /\ pc = "done"
    /\ Len(calls) = 2
    /\ new_token \in Tokens
    /\ new_token # loaded

C6_NeverPartial ==
    /\ file.ex => file.data \in SaveArgs
    /\ saving => IF file.ex
                   THEN \/ snap.ex /\ file.data = snap.data
                        \/ file.data = wtoken
                   ELSE ~snap.ex

C6_Witness ==
    /\ pc = "killed"
    /\ saving
    /\ tmp.ex
    /\ Len(tmp.data) > 0
    /\ Len(tmp.data) < TokLen
    /\ snap.ex
    /\ file.data # wtoken

C8_SaveFailureOnlyReported ==
    (caller = "main" /\ saving /\ err /\ pc \in Dead) => calls # << >>

\* C8 as amended: a failed save of a new credential, after the forced or the
\* proactive re-authentication, aborts the run (log.Fatalf) before any device
\* call.
C8_SaveFailureFatal ==
    (caller = "main" /\ saving /\ err /\ pc \notin {"save_write", "save_rename", "save_rm", "save_ret"}) =>
        (pc = "fatal" /\ calls = << >>)

C8_Witness ==
    /\ caller = "main"
    /\ mode = "proactive"
    /\ saving
    /\ err
    /\ pc = "fatal"

\* C9: a save that returns no error leaves exactly its token at the final
\* path, modified now; and a load that reads the file returns the file's
\* content unchanged with the number d of whole days between the file's
\* modification time and the current time (d days <= elapsed < d + 1 days).
C9_SaveThenLoad ==
    /\ [](pc = "save_ret" /\ ~err =>
            file = [ex |-> TRUE, data |-> wtoken, mtime |-> now])
    /\ [][(pc = "load" /\ pc' \notin {"load", "killed"} /\ loadErr' = "none") =>
            /\ token' = file.data
            /\ age' >= 0
            /\ age' * TicksPerDay <= now - file.mtime
            /\ now - file.mtime < (age' + 1) * TicksPerDay]_vars

C9_Witness ==
    /\ caller = "test"
    /\ ~saving
    /\ pc = "done"
    /\ loadErr = "none"
    /\ token \in Tokens
    /\ age = 7
    /\ now - file.mtime = 7 * TicksPerDay + 1

\* C10: a load that is not killed never ends in an error: it returns to its
\* caller, changes neither file of the store, and returns the empty token
\* with age 0 when the file is absent, cannot be read, or its metadata cannot
\* be read.
C10_LoadFailsSoft ==
    [][(pc = "load" /\ pc' \notin {"load", "killed"}) =>
            /\ pc' \in {"probe1", "done"}
            /\ file' = file
            /\ tmp' = tmp
            /\ (~file.ex \/ loadErr' # "none") => (token' = NoToken /\ age' = 0)]_vars

C10_Witness ==
    /\ caller = "test"
    /\ pc = "done"
    /\ loadErr = "stat"
    /\ file.ex
    /\ file.data \in Tokens
    /\ token = NoToken
    /\ age = 0

\* ------------------------------------------- claims on the Reserve Command
Kinds(k) == {i \in 1..Len(calls) : calls[i].kind = k}
Ended == pc \in {"done", "fatal", "panic"}

\* C11: a run with a percent p >= 0 (0 and 100 included) that has a usable
\* credential issues the operation-mode call and then the backup-reserve
\* call, each once and in this order, with one token and one site id, and
\* the reserve call carries p itself; a completed run has issued both.
C11_SetPercentCalls ==
    percent >= 0 =>
        /\ Len(calls) <= 2
        /\ \A i \in 1..Len(calls) :
            /\ calls[i].kind = <<"mode", "reserve">>[i]
            /\ calls[i].token = calls[1].token
            /\ calls[i].site = calls[1].site
            /\ calls[i].kind = "reserve" => calls[i].val = percent
        /\ pc = "done" => Len(calls) = 2

C11_Witness ==
    /\ pc = "done"
    /\ percent = 0
    /\ Len(calls) = 2
    /\ calls[1].kind = "mode"
    /\ calls[2].kind = "reserve" /\ calls[2].val = 0

\* C12 as stated: in a run with a percent that has ended after its
\* operation-mode call, the backup-reserve call was issued whether or not
\* the mode call succeeded, and nothing follows the reserve call.
C12_BothUnconditional ==
    (percent >= 0 /\ Ended /\ calls # << >>) =>
        /\ Len(calls) = 2
        /\ calls[2].kind = "reserve"

\* C12, amended: in a run with a percent that has ended after its
\* operation-mode call, the backup-reserve call was issued exactly when the
\* mode call got a decodable reply, whatever its status; a transport error
\* or an undecodable reply to the mode call has ended the run before the
\* reserve call; and no call follows the reserve call, failed or not.
C12_ReserveUnlessModeCallDied ==
    (percent >= 0 /\ Ended /\ calls # << >>) =>
        /\ calls[1].kind = "mode"
        /\ calls[1].res \in {"status", "ok"} =>
              (Len(calls) = 2 /\ calls[2].kind = "reserve")
        /\ calls[1].res \in {"neterr", "badjson"} =>
              (Len(calls) = 1 /\ pc = "fatal")

C12_Witness ==
    /\ percent >= 0
    /\ pc = "fatal"
    /\ Len(calls) = 2
    /\ calls[1].res = "status"
    /\ calls[2].kind = "reserve" /\ calls[2].res = "neterr"

\* C13: in a run with hold and no percent, a backup-reserve call comes
\* directly after a charge read that yielded a value and carries exactly
\* that value; there is at most one reserve call, a failed read is the last
\* call of the run, and a completed run has issued the reserve call.
C13_HoldReadsThenSets ==
    (percent < 0 /\ hold) =>
        /\ Cardinality(Kinds("reserve")) <= 1
        /\ \A i \in Kinds("reserve") :
            /\ i > 1
            /\ calls[i - 1].kind = "charge"
            /\ calls[i - 1].res = "value"
            /\ calls[i].val = calls[i - 1].val
        /\ \A i \in Kinds("charge") :
            calls[i].res # "value" => (i = Len(calls) /\ pc \in Dead)
        /\ pc = "done" => Kinds("reserve") # {}

C13_Witness ==
    /\ percent < 0 /\ hold
    /\ pc = "done"
    /\ devCharge = 37
    /\ \E i \in Kinds("reserve") : calls[i].val = 37 /\ calls[i - 1].val = 37

\* C14: a run with neither percent nor hold issues no operation-mode call
\* and no backup-reserve call, only the charge read; and the value such a
\* run reports is the charge the backend has, so that two runs against an
\* unchanged charge report the same value.
C14_QueryReadsOnly ==
    /\ [](percent < 0 /\ ~hold =>
            /\ Kinds("mode") = {} /\ Kinds("reserve") = {}
            /\ Len(calls) <= 1)
    /\ [][(percent < 0 /\ ~hold /\ pc = "c_charge" /\ pc' = "done") =>
            (charged' = devCharge /\ devCharge' = devCharge)]_vars

C14_Witness ==
    /\ percent < 0 /\ ~hold
    /\ pc = "done"
    /\ Len(calls) = 1
    /\ calls[1].kind = "charge"
    /\ charged = 37

\* C15: one branch runs per invocation, chosen by precedence. With a percent
\* (hold set or not) the reserve is set to the percent and the charge is
\* never read; with hold alone the reserve is set to the charge that was
\* read, never to the percent flag; with neither, the charge is read and
\* nothing is set. No run sets the reserve twice or reads the charge twice.
C15_OneVariantByPrecedence ==
    /\ Cardinality(Kinds("reserve")) <= 1
    /\ Cardinality(Kinds("charge")) <= 1
    /\ percent >= 0 =>
        /\ Kinds("charge") = {}
        /\ \A i \in Kinds("reserve") : calls[i].val = percent
        /\ pc = "done" => Kinds("reserve") # {}
    /\ (percent < 0 /\ hold) =>
        /\ \A i \in Kinds("reserve") :
              Kinds("charge") # {} /\ calls[i].val = charged /\ calls[i].val # percent
        /\ pc = "done" => (Kinds("charge") # {} /\ Kinds("reserve") # {})
    /\ (percent < 0 /\ ~hold) =>
        /\ Kinds("mode") = {} /\ Kinds("reserve") = {}
        /\ pc = "done" => Kinds("charge") # {}

C15_Witness ==
    /\ percent = 100 /\ hold
    /\ pc = "done"
    /\ Len(calls) = 2
    /\ calls[2].kind = "reserve" /\ calls[2].val = 100

\* ------------------------------------------------ claims on the site id

\* C16: a probe that got the product list but found no energy site in it
\* does not report ok: whenever ok is set, the site id is not the zero value.
C16_NoSiteNotOk == ok => energy_site_id # 0

\* C17: for a product list with at least one product that has an energy
\* site id, GetEnergySiteId reports ok and the id of the first such product
\* in list order, whatever precedes or follows it.
C17_FirstSiteResolved ==
    LET ps == reply.products
        I == {i \in 1..Len(ps) : ps[i] \in SiteIds}
    IN (pc = "done" /\ reply.kind = "ok" /\ I # {}) =>
          /\ ok
          /\ \E i \in I : /\ \A j \in I : i <= j
                          /\ energy_site_id = ps[i]

C17_Witness ==
    /\ pc = "done"
    /\ reply.kind = "ok"
    /\ reply.products = <<NoSite, 9, 7>>
    /\ ok /\ energy_site_id = 9

\* C18: all device calls of a run go to one site id, and it is an id that a
\* successful probe of this run returned; so after a proactive flow whose
\* token failed the probe the calls go to the id of the first probe.
C18_OneResolvedSite ==
    \A i \in 1..Len(calls) :
        /\ calls[i].site = calls[1].site
        /\ calls[i].site \in resolved

\* -------------------------------------- claims on the authentication flow

\* C19: when the JSON reply of either token exchange has no access_token,
\* the flow fails: the run has ended and no token was returned to main.
C19_MissingFieldFails ==
    \A i \in 1..Len(sent) :
        (sent[i].to \in {"token", "owner-api"} /\ sent[i].reply = "nofield") =>
            (pc \in Dead /\ authFailed)

\* C20: the request to the token endpoint of the resource server has the
\* JSON object (grant_type jwt-bearer, client_id, client_secret) as its body
\* and the token of the first exchange as Bearer authorization.
C20_TokenRequest ==
    \A i \in 1..Len(sent) :
        sent[i].to = "owner-api" =>
            (sent[i].body = "jwt" /\ sent[i].auth = BearerToken)

\* ---------------------------------------------- claims on the refresh

\* C25: a failed proactive refresh leaves the token file as the invocation
\* found it (same token, same modification time) and writes no sibling; the
\* next invocation, when its load succeeds, loads the token the failed one
\* had, and when that token passes the probe and is still inside the margin
\* it starts the proactive flow again.
C25_FailedRefreshDeferred ==
    /\ [][(pc \notin Terminal /\ mode' = "proactive" /\ authFailed') =>
            (file' = snap' /\ tmp' = tmp)]_vars
    /\ [][(deferred.on /\ pc = "load" /\ loadErr' = "none") =>
            loaded' = deferred.token]_vars
    /\ [][(deferred.on /\ pc = "probe1" /\ probe1' = "ok" /\ NeedsRefresh(age)) =>
            (mode' = "proactive" /\ pc' = "auth_get" /\ token' = deferred.token)]_vars

C25_Witness ==
    /\ deferred.on
    /\ mode = "proactive"
    /\ pc = "auth_get"
    /\ loaded = deferred.token
    /\ file = snap

\* C26: an invocation starts the authentication flow at most once: it sends
\* at most one request for the login page, and after a failure of the flow
\* or of the probe of its token it is at no step of the flow again.
C26_OneFlowPerRun ==
    /\ authStarted <= 1
    /\ Cardinality({i \in 1..Len(sent) :
                      sent[i].to = "authorize" /\ sent[i].body = "none"}) <= 1
    /\ authFailed =>
          pc \notin {"auth_get", "auth_post", "auth_bearer", "auth_access", "probe2"}

C26_Witness ==
    /\ mode = "proactive"
    /\ authFailed
    /\ pc = "done"
    /\ Len(sent) = 4

\* C27: no outbound call of an invocation waits without bound: the
\* invocation never sits in a call whose reply does not come.
C27_EveryCallBounded == pc # "hung"

\* ------------------------------------------- claims on the login form
SignIn == {i \in 1..Len(doc) : doc[i].signin}
Attr(inp, k) == {inp[i].val : i \in {j \in 1..Len(inp) : inp[j].key = k}}
Hidden(inp) == Attr(inp, "type") = {"hidden"}
NotHidden(inp) == \E t \in Attr(inp, "type") : t # "hidden"

\* C21: when no form of the login page has the sign-in class, the flow ends
\* at fields.Set: the fields are never a map, no login POST is built or
\* sent, and no later step is reached.
C21_NoFormNoPost ==
    (fpc \notin {"idle", "parsed"} /\ SignIn = {}) =>
        /\ fields = NilValues
        /\ fpc \in {"found", "panic"}

C21_Witness ==
    /\ fpc = "panic"
    /\ Len(doc) = 2
    /\ SignIn = {}

\* C22: when more than one form has the sign-in class, the fields found are
\* the hidden fields of the first of them in document order.
C22_FirstFormUsed ==
    (fpc = "found" /\ Cardinality(SignIn) > 1) =>
        \E i \in SignIn :
            /\ \A j \in SignIn : i <= j
            /\ fields = GetHiddenFormInputs(doc[i])

\* C23: every hidden input of the form that has a name and a value is among
\* the fields found, under its name and with its value as written, whatever
\* the value is.
C23_HiddenFieldsKept ==
    (fpc = "found" /\ Len(doc) = 1 /\ SignIn = {1}) =>
        \A i \in 1..Len(doc[1].inputs) :
            LET inp == doc[1].inputs[i] IN
            (Hidden(inp) /\ Attr(inp, "name") # {} /\ Attr(inp, "value") # {}) =>
                \E q \in fields.kv : /\ {q[1]} = Attr(inp, "name")
                                     /\ (\A j \in (i + 1)..Len(doc[1].inputs) :
                                            Attr(doc[1].inputs[j], "name") # {q[1]})
                                        => {q[2]} = Attr(inp, "value")

\* C24: every field found comes from an input of the form that has that
\* name and that value and no type other than hidden, wherever its type
\* attribute stands; an input of another type, or one that lacks a name or
\* a value, adds none.
C24_OnlyHiddenFields ==
    (fpc = "found" /\ Len(doc) = 1 /\ SignIn = {1}) =>
        \A q \in fields.kv :
            \E i \in 1..Len(doc[1].inputs) :
                LET inp == doc[1].inputs[i] IN
                /\ ~NotHidden(inp)
                /\ Attr(inp, "name") = {q[1]}
                /\ Attr(inp, "value") = {q[2]}

\* -------------------------------------------- claims on the monitor
InCritical(g) ==
    mpc[g] \in {"r_store", "r_store2", "r_unlock", "w_read", "w_read2", "w_unlock"}

\* C28: a goroutine that reads or writes TeslaState.tokens holds the mutex,
\* so no two of them are at it at once, and a copy that was read is never
\* torn: it is one of the values that were stored as a whole.
C28_TokensUnderMutex ==
    /\ \A g \in Goroutines : InCritical(g) => mu = g
    /\ \A g \in Goroutines :
          mpc[g] \in {"w_unlock", "w_file"} => local[g][1] = local[g][2]

C28_Witness ==
    /\ mpc[1] = "w_file"
    /\ local[1] = <<1, 1>>
    /\ mpc[2] = "r_store2"
    /\ tokens = <<2, 1>>

\* C29: at most one call of updateMetricsFromTesla is in flight: the loop is
\* inside the call exactly while one is, and takes the next tick only after
\* the call has returned, however many ticks fell into the call.
C29_OneUpdateInFlight ==
    /\ inflight <= 1
    /\ inflight = 1 <=> loop = "updating"

C29_Witness ==
    /\ loop = "updating"
    /\ inflight = 1
    /\ tick

\* --------------------------------------------------- claims on the slug

\* C30: GetRandomSlug(n) returns exactly n bytes, each one of the
\* characters, for n = 0 too.
C30_SlugHasLength ==
    slugI = Len(slugB) =>
        /\ Len(slugB) = slugN
        /\ \A i \in 1..Len(slugB) : slugB[i] \in Characters

C30_Witness ==
    /\ slugN = 3
    /\ slugI = 3
    /\ Len(slugB) = 3
    /\ slugB[1] # slugB[2]

\* C31: a token that an invocation of main writes to the token file (or to its
\* .new sibling) or sends as the bearer of a device-control call has, earlier
\* in that invocation, been the token of a GetEnergySiteId call that returned ok.
C31_OnlyProbedTokens ==
    /\ [](\A i \in 1..Len(calls) : calls[i].token \in probedOK)
    /\ [](pc \in {"save_open", "save_write", "save_rename", "save_rm", "save_ret"}
            => wtoken \in probedOK)
    /\ [][tmp'.data # tmp.data /\ tmp'.ex
            => \E n \in 0..Len(wtoken) :
                  /\ tmp'.data = SubSeq(wtoken, 1, n)
                  /\ wtoken \in probedOK]_vars
    /\ [][file'.data # file.data => file'.data \in probedOK]_vars

\* a proactive refresh whose token passed the probe was saved and authorized a
\* device call, with a token other than the one the load returned
C31_Witness ==
    /\ mode = "proactive"
    /\ Len(calls) > 0
    /\ token # loaded
    /\ file.data = token
    /\ calls[1].token = token
    /\ probedOK = {loaded, token}

\* the body of the request is fields.Encode(): the hidden fields of the login
\* form with identity (the username) and credential (the password)
CarriesPassword(req) == req.body = "form"

\* C32: the username and the password are sent only in the login POST to the
\* identity provider (auth.tesla.com/oauth2/v3/authorize): no request to a token
\* endpoint, of the identity provider or of the resource server, carries them.
C32_PasswordOnlyInLoginPost ==
    \A i \in 1..Len(sent) :
        CarriesPassword(sent[i]) => sent[i].to = "authorize"

\* C33: when two invocations save into the same state directory at the same
\* time, the token file never holds anything but a complete token, and when
\* WriteOAuthTokenToFile returns nil the token file exists and holds a
\* complete token.
C33_ConcurrentSaveSafe ==
    /\ file.ex => file.data \in Tokens
    /\ \A g \in Savers :
          spc[g] = "done" /\ ~serr[g] => file.ex /\ file.data \in Tokens

\* C34 as stated: a run with hold and no percent issues no operation-mode
\* call; the backup-reserve call is the only call of it that sets something.
C34_HoldLeavesMode ==
    (percent < 0 /\ hold) => Kinds("mode") = {}

\* C34, amended: a run with hold and no percent first sets the operation mode
\* (to self_consumption), once; it then reads the charge and issues at most
\* one backup-reserve call, as its third call; a completed run has issued
\* exactly these three calls.
C34_HoldSetsModeFirst ==
    (percent < 0 /\ hold /\ Len(calls) > 0) =>
        /\ Kinds("mode") = {1}
        /\ Kinds("charge") \subseteq {2}
        /\ Kinds("reserve") \subseteq {3}
        /\ Len(calls) <= 3
        /\ pc = "done" => Len(calls) = 3

\* a completed hold run whose mode call was answered with success
C34_Witness ==
    /\ percent < 0 /\ hold
    /\ pc = "done"
    /\ calls[1].kind = "mode" /\ calls[1].res = "ok"
    /\ calls[2].kind = "charge"
    /\ calls[3].kind = "reserve" /\ calls[3].res = "ok"

====
